---------------------------- MODULE Spec2Model ----------------------------
(***************************************************************************)
(* Model of the DICHOSOcean dashboard script (src/app.py): the two cached  *)
(* loaders, the three outlier rules, the sidebar navigation and date-range *)
(* widget, the date-range filter, and what the routed sections compute     *)
(* (outlier summary, correlation and p-value matrices, best-fit pairs, the *)
(* 2024/2025 comparison).                                                  *)
(*                                                                         *)
(* A DataFrame is a sequence of rows in load order.  A row is a record     *)
(*   [index |-> the pandas RangeIndex label, cells |-> column -> value].   *)
(* A float cell is an integer, or NaN for a missing reading.               *)
(* A timestamp is the number of hours since an epoch; the text of a        *)
(* DateTime cell of the CSV file is the pair <<day, hour>>.                *)
(***************************************************************************)
EXTENDS Integers, Sequences, FiniteSets, TLC

VARIABLES
    file,               \* rows of data/dichosocean_prepared.csv (source headers)
    data,               \* module-level clean DataFrame, load_data()
    raw_data,           \* module-level raw DataFrame, load_raw_data()
    date_range,         \* value returned by st.sidebar.date_input: 0..2 dates
    filtered_data,      \* date-filtered view of data
    filtered_raw_data,  \* date-filtered view of raw_data
    file_status,        \* "ok", or why data/dichosocean_prepared.csv cannot be read
    scipy,              \* what the installed scipy.stats tests return
    selected_section,   \* st.session_state.selected_section
    view,               \* what the routed section computed in this run
    error               \* the exception that stopped this run, "" if none

vars == <<file, data, raw_data, date_range, filtered_data, filtered_raw_data,
          file_status, scipy, selected_section, view, error>>

-----------------------------------------------------------------------------
(* Bounds of the model *)

MaxRows == 3    \* rows in the source file
MaxDay == 2     \* calendar days the timestamps span

-----------------------------------------------------------------------------
(* Values *)

\* np.nan: a missing reading.  Every real reading lies far above it.
NaN == -999999

\* Series > scalar, elementwise: a comparison with NaN is False.
Gt(x, y) == x # NaN /\ y # NaN /\ x > y

\* Series < scalar, elementwise: a comparison with NaN is False.
Lt(x, y) == x # NaN /\ y # NaN /\ x < y

\* The rename table of both loaders: source header -> canonical name (the
\* temperature header is written without its degree sign).
columns ==
    ("DateTime (UTC+00:00)" :> "datetime") @@
    ("Temperature (C)" :> "temperature") @@
    ("Pressure (dbar)" :> "pressure") @@
    ("Chlorophyll (ug/L)" :> "chlorophyll_a") @@
    ("Turbidity (NTU)" :> "turbidity") @@
    ("Salinity (PSU)" :> "salinity") @@
    ("pH" :> "ph") @@
    ("OD umolKg-1" :> "dissolved_oxygen") @@
    ("pCO2" :> "pco2") @@
    ("TA (ueq/kg)" :> "ta")

\* The nine sensor headers of the source file.
SensorHeaders == DOMAIN columns \ {"DateTime (UTC+00:00)"}

\* The nine sensor variables under their canonical names.
Variables == {columns[h] : h \in SensorHeaders}

-----------------------------------------------------------------------------
(* The source files the model loads *)

\* One reading of the nine sensors, under the source headers.
Reading(t, p, chl, tu, s, ph, od, pc, ta) ==
    ("Temperature (C)" :> t) @@ ("Pressure (dbar)" :> p) @@
    ("Chlorophyll (ug/L)" :> chl) @@ ("Turbidity (NTU)" :> tu) @@
    ("Salinity (PSU)" :> s) @@ ("pH" :> ph) @@ ("OD umolKg-1" :> od) @@
    ("pCO2" :> pc) @@ ("TA (ueq/kg)" :> ta)

\* Readings at the rule boundaries, beyond them, and missing.
Readings ==
    { Reading(10, 5, 200, 1, 34, 8, 300, 400, 2000),
      Reading(11, 6, 250, 2, 35, 7, 310, 410, 1999),
      Reading(NaN, 5, NaN, NaN, NaN, 8, NaN, 400, NaN) }

\* The hour of the one sample taken on a day: late on odd days, midnight on
\* even days.
HourOf(d) == IF d % 2 = 1 THEN 23 ELSE 0

\* The DateTime cells of the file: the timestamp entry is required.
DateTimeCells == {<<d, HourOf(d)>> : d \in 1..MaxDay}

FileRows ==
    {("DateTime (UTC+00:00)" :> dt) @@ r : dt \in DateTimeCells, r \in Readings}

\* Non-empty files, rows in any order (the file is not sorted by time).
Files == UNION {[1..n -> FileRows] : n \in 1..MaxRows}

-----------------------------------------------------------------------------
(* pandas operations used by the loaders *)

\* pd.read_csv: the rows of the file in file order under a fresh RangeIndex
\* 0..n-1, columns named by the source headers.
read_csv(f) == [i \in 1..Len(f) |-> [index |-> i - 1, cells |-> f[i]]]

\* The new name of a column under DataFrame.rename(columns=...): a name the
\* table does not list is kept.
NewName(h) == IF h \in DOMAIN columns THEN columns[h] ELSE h

\* df.rename(columns={...}): same rows, same cells, columns renamed.
rename(df) ==
    [i \in DOMAIN df |->
        [df[i] EXCEPT !.cells =
            [c \in {NewName(h) : h \in DOMAIN df[i].cells} |->
                df[i].cells[CHOOSE h \in DOMAIN df[i].cells : NewName(h) = c]]]]

\* pd.to_datetime of one cell: the text <<day, hour>> becomes a timestamp.
to_datetime(cell) == cell[1] * 24 + cell[2]

\* df['datetime'] = pd.to_datetime(df['datetime'])
convert_datetime(df) ==
    [i \in DOMAIN df |->
        [df[i] EXCEPT !.cells["datetime"] = to_datetime(@)]]

\* Timestamp.date() / Series.dt.date: the calendar day of a timestamp.
date(ts) == ts \div 24

\* df[col] as a sequence of cells in row order.
Column(df, col) == [i \in DOMAIN df |-> df[i].cells[col]]

\* Series.min() / Series.max() of the datetime column (never missing).
MinOf(s) == CHOOSE x \in {s[i] : i \in DOMAIN s} : \A i \in DOMAIN s : x <= s[i]
MaxOf(s) == CHOOSE x \in {s[i] : i \in DOMAIN s} : \A i \in DOMAIN s : x >= s[i]

\* The k-th smallest (k = 1..Len(s)) entry of a sequence without NaN.
KthSmallest(s, k) ==
    CHOOSE v \in {s[i] : i \in DOMAIN s} :
        /\ Cardinality({i \in DOMAIN s : s[i] < v}) < k
        /\ Cardinality({i \in DOMAIN s : s[i] <= v}) >= k

IsValue(x) == x # NaN

\* Series.quantile(q) with q = pct/100, linear interpolation, NaN skipped;
\* the result is returned multiplied by 100 so that it stays an integer
\* (NaN when the column has no value).  With n values sorted ascending the
\* virtual index is (n-1)*q, and the result interpolates between its two
\* neighbours.
quantile_x100(s, pct) ==
    LET v == SelectSeq(s, IsValue)
        n == Len(v)
        pos == (n - 1) * pct
        lo == pos \div 100
        frac == pos % 100
        a == KthSmallest(v, lo + 1)
        b == KthSmallest(v, IF lo + 2 <= n THEN lo + 2 ELSE n)
    IN  IF n = 0 THEN NaN ELSE 100 * a + frac * (b - a)

\* value > threshold, the threshold being given multiplied by 100.
GtScaled(x, t100) == x # NaN /\ t100 # NaN /\ 100 * x > t100

-----------------------------------------------------------------------------
(* The outlier rules of load_data *)

\* Variant: the offending rows split off, nulled and appended after the rest
\* (pd.concat of the two parts), which reorders the dataset.
ScrubChlorophyll_Concat(df) ==
    LET Fires(row) == Gt(row.cells["chlorophyll_a"], 200)
        Keep(row) == ~Fires(row)
        bad == SelectSeq(df, Fires)
    IN  SelectSeq(df, Keep) \o
        [k \in DOMAIN bad |-> [bad[k] EXCEPT !.cells["chlorophyll_a"] = NaN]]

\* Variant: the ceiling taken inclusive, chlorophyll_a >= 200.
ScrubChlorophyll_Inclusive(df) ==
    [i \in DOMAIN df |->
        IF df[i].cells["chlorophyll_a"] # NaN /\ df[i].cells["chlorophyll_a"] >= 200
        THEN [df[i] EXCEPT !.cells["chlorophyll_a"] = NaN]
        ELSE df[i]]

\* df.loc[df['chlorophyll_a'] > 200, 'chlorophyll_a'] = np.nan
ScrubChlorophyll(df) ==
    [i \in DOMAIN df |->
        IF Gt(df[i].cells["chlorophyll_a"], 200)
        THEN [df[i] EXCEPT !.cells["chlorophyll_a"] = NaN]
        ELSE df[i]]

\* Variant: values equal to the threshold nulled too, turbidity >= threshold.
ScrubTurbidity_Inclusive(df) ==
    LET turbidity_threshold == quantile_x100(Column(df, "turbidity"), 99)
    IN  [i \in DOMAIN df |->
            IF /\ df[i].cells["turbidity"] # NaN
               /\ turbidity_threshold # NaN
               /\ 100 * df[i].cells["turbidity"] >= turbidity_threshold
            THEN [df[i] EXCEPT !.cells["turbidity"] = NaN]
            ELSE df[i]]

\* turbidity_threshold = df['turbidity'].quantile(0.99)
\* df.loc[df['turbidity'] > turbidity_threshold, 'turbidity'] = np.nan
ScrubTurbidity(df) ==
    LET turbidity_threshold == quantile_x100(Column(df, "turbidity"), 99)
    IN  [i \in DOMAIN df |->
            IF GtScaled(df[i].cells["turbidity"], turbidity_threshold)
            THEN [df[i] EXCEPT !.cells["turbidity"] = NaN]
            ELSE df[i]]

\* Variant: the floor mistyped, ta < 200.
ScrubTa_WrongFloor(df) ==
    [i \in DOMAIN df |->
        IF Lt(df[i].cells["ta"], 200)
        THEN [df[i] EXCEPT !.cells["ta"] = NaN]
        ELSE df[i]]

\* df.loc[df['ta'] < 2000, 'ta'] = np.nan
ScrubTa(df) ==
    [i \in DOMAIN df |->
        IF Lt(df[i].cells["ta"], 2000)
        THEN [df[i] EXCEPT !.cells["ta"] = NaN]
        ELSE df[i]]

\* Variant: the raw loader applying the outlier rules as the clean one does.
load_raw_data_Scrubbed(f) ==
    ScrubTa(ScrubTurbidity(ScrubChlorophyll(
        convert_datetime(rename(read_csv(f))))))

\* load_raw_data(): read, rename, parse the timestamps.
load_raw_data(f) == convert_datetime(rename(read_csv(f)))

\* load_data(): read, rename, parse the timestamps, then the three rules in
\* the order chlorophyll, turbidity, total alkalinity.
load_data(f) ==
    ScrubTa(ScrubTurbidity(ScrubChlorophyll(
        convert_datetime(rename(read_csv(f))))))

-----------------------------------------------------------------------------
(* The sidebar date picker and the date-range filter *)

\* min_value / max_value of st.sidebar.date_input.
min_value(df) == date(MinOf(Column(df, "datetime")))
max_value(df) == date(MaxOf(Column(df, "datetime")))

\* The default value of the picker: the full range of the clean dataset.
DefaultRange(df) == <<min_value(df), max_value(df)>>

\* What the picker can return: no date, one date (a range being picked), or
\* a start and an end with start <= end, all within [min_value, max_value].
DateInputs(df) ==
    LET days == min_value(df)..max_value(df)
    IN  {<<>>} \cup {<<d>> : d \in days}
              \cup {r \in days \X days : r[1] <= r[2]}

\* Variant: the timestamps compared as instants with midnight of the bounds,
\* df['datetime'] >= Timestamp(start) and <= Timestamp(end).
DateMask_Instants(df, dr) ==
    LET InRange(row) == /\ row.cells["datetime"] >= dr[1] * 24
                        /\ row.cells["datetime"] <= dr[2] * 24
    IN  SelectSeq(df, InRange)

\* Variant: the end bound taken exclusive.
DateMask_ExclusiveEnd(df, dr) ==
    LET InRange(row) == /\ date(row.cells["datetime"]) >= dr[1]
                        /\ date(row.cells["datetime"]) < dr[2]
    IN  SelectSeq(df, InRange)

\* df[(df['datetime'].dt.date >= date_range[0]) &
\*    (df['datetime'].dt.date <= date_range[1])]
\* Boolean-mask selection: the selected rows with their index labels, in order.
DateMask(df, dr) ==
    LET InRange(row) == /\ date(row.cells["datetime"]) >= dr[1]
                        /\ date(row.cells["datetime"]) <= dr[2]
    IN  SelectSeq(df, InRange)

\* Variant: the turbidity threshold recomputed on the filtered rows.
filter_by_date_range_Rescrub(df, dr) ==
    IF Len(dr) = 2 THEN ScrubTurbidity(DateMask(df, dr)) ELSE df

\* Variant: a single selected date treated as the one-day range [d, d].
filter_by_date_range_SingleDay(df, dr) ==
    IF Len(dr) = 2 THEN DateMask(df, dr)
    ELSE IF Len(dr) = 1 THEN DateMask(df, <<dr[1], dr[1]>>)
    ELSE df

\* if len(date_range) == 2: the masked rows; else: the dataset itself.
filter_by_date_range(df, dr) ==
    IF Len(dr) = 2 THEN DateMask(df, dr) ELSE df

-----------------------------------------------------------------------------
(* Floating-point results of the views *)

\* A float computed by a view: an exact fraction in lowest terms, nan, or a
\* signed infinity.  All three are records of the same shape.
Abs(x) == IF x < 0 THEN -x ELSE x

RECURSIVE GCD(_, _)
GCD(a, b) == IF b = 0 THEN a ELSE GCD(b, a % b)

\* n / d for d # 0, in lowest terms with a positive denominator.
Frac(n, d) ==
    LET g == GCD(Abs(n), Abs(d))
        s == IF d < 0 THEN -1 ELSE 1
    IN  [kind |-> "num", num |-> (s * n) \div g, den |-> (s * d) \div g]

\* np.nan and +-np.inf as results.
NaNf == [kind |-> "nan", num |-> 0, den |-> 1]
Inf(s) == [kind |-> "inf", num |-> s, den |-> 1]

Zero == Frac(0, 1)

\* a - b on floats: inf - inf is nan.
FSub(a, b) ==
    IF a.kind = "nan" \/ b.kind = "nan" THEN NaNf
    ELSE IF a.kind = "inf"
         THEN IF b.kind = "inf" /\ b.num = a.num THEN NaNf ELSE a
    ELSE IF b.kind = "inf" THEN Inf(-b.num)
    ELSE Frac(a.num * b.den - b.num * a.den, a.den * b.den)

\* a * b on floats: inf * 0 is nan.
FMul(a, b) ==
    IF a.kind = "nan" \/ b.kind = "nan" THEN NaNf
    ELSE IF a.kind = "inf" \/ b.kind = "inf"
         THEN IF a.num = 0 \/ b.num = 0 THEN NaNf
              ELSE Inf(IF (a.num > 0) = (b.num > 0) THEN 1 ELSE -1)
    ELSE Frac(a.num * b.num, a.den * b.den)

\* a / b as numpy.float64 divides: x/0 is a signed infinity, 0/0 and
\* inf/inf are nan.
FDiv(a, b) ==
    IF a.kind = "nan" \/ b.kind = "nan" THEN NaNf
    ELSE IF b.kind = "inf" THEN (IF a.kind = "inf" THEN NaNf ELSE Zero)
    ELSE IF a.kind = "inf"
         THEN Inf(IF (a.num > 0) = (b.num >= 0) THEN 1 ELSE -1)
    ELSE IF b.num = 0
         THEN IF a.num = 0 THEN NaNf ELSE Inf(IF a.num > 0 THEN 1 ELSE -1)
    ELSE Frac(a.num * b.den, a.den * b.num)

\* a != 0 on a float: True for nan.
NotZero(a) == ~(a.kind = "num" /\ a.num = 0)

RECURSIVE SumSeq(_)
SumSeq(s) == IF s = <<>> THEN 0 ELSE Head(s) + SumSeq(Tail(s))

\* Series.dropna(): the values that are present, in row order.
dropna(s) == SelectSeq(s, IsValue)

\* Series.mean() of a series without NaN: nan for an empty series.
mean(s) == IF Len(s) = 0 THEN NaNf ELSE Frac(SumSeq(s), Len(s))

-----------------------------------------------------------------------------
(* The calendar: day 1 is 2024-01-01 *)

\* The last day of each month, counted from 1 January, in a leap year and in
\* a common year.
LeapMonthEnds == <<31, 60, 91, 121, 152, 182, 213, 244, 274, 305, 335, 366>>
MonthEnds == <<31, 59, 90, 120, 151, 181, 212, 243, 273, 304, 334, 365>>

\* Series.dt.year of a timestamp (2024 is a leap year).
dt_year(ts) ==
    IF date(ts) <= 366 THEN 2024
    ELSE IF date(ts) <= 731 THEN 2025
    ELSE 2026

\* Series.dt.month of a timestamp.
dt_month(ts) ==
    LET d == date(ts)
        ends == IF d <= 366 THEN LeapMonthEnds ELSE MonthEnds
        doy == IF d <= 366 THEN d ELSE IF d <= 731 THEN d - 366 ELSE d - 731
    IN  Cardinality({m \in 1..12 : ends[m] < doy}) + 1

-----------------------------------------------------------------------------
(* The views *)

\* The six navigation options, in menu order.
menu_options ==
    << "About DICHOSOcean", "Data Overview", "Statistical Analysis",
       "Interannual Variability", "DICHOSO project", "References" >>

\* The variable list every statistical view iterates over, in its order.
variables ==
    << "temperature", "pressure", "salinity", "chlorophyll_a", "turbidity",
       "ph", "dissolved_oxygen", "pco2", "ta" >>

\* A run that computed nothing yet.
NoView ==
    [ section |-> "",
      data_2024 |-> <<>>, data_2025 |-> <<>>,
      var_counts |-> <<>>, outlier_counts |-> <<>>,
      outlier_percentages |-> <<>>,
      corr_matrix |-> <<>>, p_values |-> <<>>, significance_matrix |-> <<>>,
      best_pairs |-> <<>>,
      summary_data |-> <<>>, significant_changes |-> <<>>, changes_report |-> "",
      test_results |-> <<>>,
      exception |-> "" ]

\* The columns a DataFrame has (those of its first row; none if it is empty).
ColumnsOf(df) == IF Len(df) = 0 THEN {} ELSE DOMAIN df[1].cells

\* df[col] = values: the column added to (or replaced in) every row.
WithColumn(df, col, values) ==
    [i \in DOMAIN df |->
        [df[i] EXCEPT !.cells = (col :> values[i]) @@ df[i].cells]]

\* About DICHOSOcean: the January-February rows of each year, copied, with
\* the x_axis column added to the copies (the 2025 timestamps moved to the
\* same day and hour of 2024).
AboutView(d) ==
    LET JanFeb(row) == dt_month(row.cells["datetime"]) \in {1, 2}
        In2024(row) == dt_year(row.cells["datetime"]) = 2024
        In2025(row) == dt_year(row.cells["datetime"]) = 2025
        data_jan_feb == SelectSeq(d, JanFeb)
        copy_2024 == SelectSeq(data_jan_feb, In2024)
        copy_2025 == SelectSeq(data_jan_feb, In2025)
    IN  [NoView EXCEPT
            !.section = menu_options[1],
            !.data_2024 = WithColumn(copy_2024, "x_axis",
                              Column(copy_2024, "datetime")),
            !.data_2025 = WithColumn(copy_2025, "x_axis",
                              [i \in DOMAIN copy_2025 |->
                                  copy_2025[i].cells["datetime"] - 366 * 24])]

\* Variant: the percentage computed without asking whether there are values.
OutlierSummary_Unguarded(column) ==
    LET values == dropna(column)
        Q1 == quantile_x100(values, 25)
        Q3 == quantile_x100(values, 75)
        IQR == Q3 - Q1
        lower_bound == 2 * Q1 - 3 * IQR
        upper_bound == 2 * Q3 + 3 * IQR
        outliers_count ==
            Cardinality({i \in DOMAIN values :
                200 * values[i] < lower_bound \/ 200 * values[i] > upper_bound})
    IN  [count |-> outliers_count,
         pct |-> FMul(FDiv(Frac(outliers_count, 1), Frac(Len(values), 1)),
                      Frac(100, 1))]

\* Variant: a value equal to a fence counted as an outlier.
OutlierSummary_Inclusive(column) ==
    LET values == dropna(column)
        Q1 == quantile_x100(values, 25)
        Q3 == quantile_x100(values, 75)
        IQR == Q3 - Q1
        lower_bound == 2 * Q1 - 3 * IQR
        upper_bound == 2 * Q3 + 3 * IQR
        outliers_count ==
            Cardinality({i \in DOMAIN values :
                200 * values[i] <= lower_bound \/ 200 * values[i] >= upper_bound})
    IN  IF Len(values) > 0
        THEN [count |-> outliers_count,
              pct |-> FMul(Frac(outliers_count, Len(values)), Frac(100, 1))]
        ELSE [count |-> 0, pct |-> Zero]

\* The IQR outlier count and percentage of one series, as the Data Overview
\* computes them: Q1 and Q3 by Series.quantile, fences at 1.5 IQR, values
\* strictly outside the fences counted; 0 and 0 for a series without values.
\* The quantiles are x100, so the fences are compared x200.
OutlierSummary(column) ==
    LET values == dropna(column)
        Q1 == quantile_x100(values, 25)
        Q3 == quantile_x100(values, 75)
        IQR == Q3 - Q1
        lower_bound == 2 * Q1 - 3 * IQR
        upper_bound == 2 * Q3 + 3 * IQR
        outliers_count ==
            Cardinality({i \in DOMAIN values :
                200 * values[i] < lower_bound \/ 200 * values[i] > upper_bound})
    IN  IF Len(values) > 0
        THEN [count |-> outliers_count,
              pct |-> FMul(Frac(outliers_count, Len(values)), Frac(100, 1))]
        ELSE [count |-> 0, pct |-> Zero]

\* Data Overview: the non-null count of every variable in the clean view and
\* the IQR outlier summary of every variable in the raw view.
OverviewView(fd, frd) ==
    LET summary ==
            [k \in DOMAIN variables |-> OutlierSummary(Column(frd, variables[k]))]
    IN  [NoView EXCEPT
            !.section = menu_options[2],
            !.var_counts =
                [k \in DOMAIN variables |-> Len(dropna(Column(fd, variables[k])))],
            !.outlier_counts = [k \in DOMAIN variables |-> summary[k].count],
            !.outlier_percentages = [k \in DOMAIN variables |-> summary[k].pct]]

-----------------------------------------------------------------------------
(* Statistical Analysis: correlation matrix, p-values, best-fit pairs *)

\* A correlation coefficient r is kept as its sign and the exact fraction
\* num/den = r^2, together with the index labels of the rows it was computed
\* on; kind "nan" when it is undefined.
\* A p-value is the literal num/den (kind "num"), nan, or the two-tailed
\* p-value scipy.stats.pearsonr returns for a sample of n rows whose squared
\* correlation is num/den (kind "pearsonr"): that p-value is a function of n
\* and r^2 alone.
NaNr(labels) == [kind |-> "nan", sign |-> 0, num |-> 0, den |-> 1, rows |-> labels]

Literal(n, d) == [kind |-> "num", num |-> n, den |-> d, n |-> 0, rows |-> {}]

\* The rows of df in which both columns hold a value: df[[a, b]].dropna().
PairwiseComplete(df, a, b) ==
    LET Both(row) == row.cells[a] # NaN /\ row.cells[b] # NaN
    IN  SelectSeq(df, Both)

\* Pearson's r of two equally long series without NaN, as pandas' nancorr
\* and scipy's pearsonr define it: cov / sqrt(var_x * var_y), nan when there
\* is no row or one of the series is constant.
PearsonR(x, y, labels) ==
    LET n == Len(x)
        Sx == SumSeq(x)
        Sy == SumSeq(y)
        Sxx == SumSeq([k \in DOMAIN x |-> x[k] * x[k]])
        Syy == SumSeq([k \in DOMAIN y |-> y[k] * y[k]])
        Sxy == SumSeq([k \in DOMAIN x |-> x[k] * y[k]])
        cov == n * Sxy - Sx * Sy
        varx == n * Sxx - Sx * Sx
        vary == n * Syy - Sy * Sy
        r2 == Frac(cov * cov, varx * vary)
    IN  IF n = 0 \/ varx = 0 \/ vary = 0 THEN NaNr(labels)
        ELSE [kind |-> "num",
              sign |-> IF cov > 0 THEN 1 ELSE IF cov < 0 THEN -1 ELSE 0,
              num |-> r2.num, den |-> r2.den, rows |-> labels]

\* Variant: r over the rows of df.dropna(), complete in every variable.
CorrEntry_Listwise(df, a, b) ==
    LET Complete(row) == \A v \in Variables : row.cells[v] # NaN
        valid == SelectSeq(df, Complete)
    IN  PearsonR(Column(valid, a), Column(valid, b),
                 {valid[k].index : k \in DOMAIN valid})

\* One entry of DataFrame.corr(): Pearson's r over the pairwise-complete
\* rows of the two columns (min_periods = 1).
CorrEntry(df, a, b) ==
    LET valid == PairwiseComplete(df, a, b)
    IN  PearsonR(Column(valid, a), Column(valid, b),
                 {valid[k].index : k \in DOMAIN valid})

\* filtered_data[variables].corr()
corr(df) ==
    [i \in DOMAIN variables |->
        [j \in DOMAIN variables |-> CorrEntry(df, variables[i], variables[j])]]

\* The p-value of scipy.stats.pearsonr(x, y): nan for a constant input.
pearsonr_p(x, y, labels) ==
    LET r == PearsonR(x, y, labels)
    IN  IF r.kind = "nan"
        THEN [kind |-> "nan", num |-> 0, den |-> 1, n |-> Len(x), rows |-> labels]
        ELSE [kind |-> "pearsonr", num |-> r.num, den |-> r.den,
              n |-> Len(x), rows |-> labels]

\* Variant: the rows taken from df.dropna(), complete in every variable.
PValueEntry_DropAnyNull(df, i, j) ==
    IF i # j
    THEN LET Complete(row) == \A v \in Variables : row.cells[v] # NaN
             valid_data == SelectSeq(df, Complete)
         IN  IF Len(valid_data) > 2
             THEN pearsonr_p(Column(valid_data, variables[i]),
                             Column(valid_data, variables[j]),
                             {valid_data[k].index : k \in DOMAIN valid_data})
             ELSE Literal(1, 1)
    ELSE Literal(0, 1)

\* Variant: 0.0 written for a pair with at most 2 complete rows.
PValueEntry_SentinelZero(df, i, j) ==
    IF i # j
    THEN LET valid_data == PairwiseComplete(df, variables[i], variables[j])
         IN  IF Len(valid_data) > 2
             THEN pearsonr_p(Column(valid_data, variables[i]),
                             Column(valid_data, variables[j]),
                             {valid_data[k].index : k \in DOMAIN valid_data})
             ELSE Literal(0, 1)
    ELSE Literal(0, 1)

\* One entry of the p-value matrix.
PValueEntry(df, i, j) ==
    IF i # j
    THEN LET valid_data == PairwiseComplete(df, variables[i], variables[j])
         IN  IF Len(valid_data) > 2
             THEN pearsonr_p(Column(valid_data, variables[i]),
                             Column(valid_data, variables[j]),
                             {valid_data[k].index : k \in DOMAIN valid_data})
             ELSE Literal(1, 1)
    ELSE Literal(0, 1)

\* The smallest r^2 (as <<num, den>>, rounded to four places) at which the
\* two-tailed p-value of a sample of n rows falls below 0.05: the squares of
\* the critical values 0.9969, 0.9500, 0.8783, 0.8114 of Pearson's r for
\* n = 3, 4, 5, 6.  For n = 4 the value is exact (p = 1 - |r|).
CriticalR2(n) ==
    CASE n = 3 -> <<9938, 10000>>
      [] n = 4 -> <<9025, 10000>>
      [] n = 5 -> <<7715, 10000>>
      [] n = 6 -> <<6584, 10000>>

\* p < 0.05
Below005(p) ==
    CASE p.kind = "nan" -> FALSE
      [] p.kind = "num" -> 20 * p.num < p.den
      [] p.kind = "pearsonr" ->
            p.num * CriticalR2(p.n)[2] > CriticalR2(p.n)[1] * p.den

\* abs(r_val) > np.sqrt(0.8), that is r^2 > 0.8; False for nan.
AboveThresholdR(r) == r.kind = "num" /\ 5 * r.num > 4 * r.den

\* The inner loop for one i: the qualifying pairs (i, j) for j = first ..
\* len(variables) - 1, in ascending j.
RowPairs(cm, pv, i, first) ==
    LET js == [k \in 1..(Len(variables) - first + 1) |-> first + k - 1]
        Qualifies(j) == AboveThresholdR(cm[i][j]) /\ Below005(pv[i][j])
        kept == SelectSeq(js, Qualifies)
    IN  [k \in DOMAIN kept |->
            [var1 |-> variables[i], var2 |-> variables[kept[k]],
             r |-> cm[i][kept[k]],
             r2 |-> Frac(cm[i][kept[k]].num, cm[i][kept[k]].den),
             p |-> pv[i][kept[k]]]]

\* Variant: the whole matrix enumerated, j from the first variable on.
RECURSIVE CollectPairs_FullMatrix(_, _, _)
CollectPairs_FullMatrix(cm, pv, i) ==
    IF i > Len(variables) THEN <<>>
    ELSE RowPairs(cm, pv, i, 1) \o CollectPairs_FullMatrix(cm, pv, i + 1)

\* The qualifying pairs of the upper triangle in enumeration order: i
\* ascending from the given row, then j ascending from i + 1.
RECURSIVE CollectPairs(_, _, _)
CollectPairs(cm, pv, i) ==
    IF i > Len(variables) THEN <<>>
    ELSE RowPairs(cm, pv, i, i + 1) \o CollectPairs(cm, pv, i + 1)

\* a.r2 > b.r2
GreaterR2(a, b) == a.r2.num * b.r2.den > b.r2.num * a.r2.den

\* Variant: sorted ascending, then reversed; entries of equal r2 end up in
\* the reverse of their order.
SortByR2Descending_Reversed(pairs) ==
    LET Position(k) ==
            1 + Cardinality({m \in DOMAIN pairs : GreaterR2(pairs[m], pairs[k])})
              + Cardinality({m \in (k + 1)..Len(pairs) :
                    ~GreaterR2(pairs[m], pairs[k]) /\ ~GreaterR2(pairs[k], pairs[m])})
    IN  [q \in DOMAIN pairs |-> pairs[CHOOSE k \in DOMAIN pairs : Position(k) = q]]

\* sorted(pairs, key=lambda x: x['r2'], reverse=True): descending and stable,
\* entries of equal r2 keep their order.
SortByR2Descending(pairs) ==
    LET Position(k) ==
            1 + Cardinality({m \in DOMAIN pairs : GreaterR2(pairs[m], pairs[k])})
              + Cardinality({m \in 1..(k - 1) :
                    ~GreaterR2(pairs[m], pairs[k]) /\ ~GreaterR2(pairs[k], pairs[m])})
    IN  [q \in DOMAIN pairs |-> pairs[CHOOSE k \in DOMAIN pairs : Position(k) = q]]

\* Variant: pairs[:7]
Top6_Seven(pairs) == SubSeq(pairs, 1, IF Len(pairs) < 7 THEN Len(pairs) ELSE 7)

\* pairs[:6]
Top6(pairs) == SubSeq(pairs, 1, IF Len(pairs) < 6 THEN Len(pairs) ELSE 6)

\* One cell of the significance matrix: nan on the diagonal, 1 where
\* p_values[i, j] < 0.05, 0 elsewhere.
SignificanceCell(p_values, i, j) ==
    IF i = j THEN NaN
    ELSE IF Below005(p_values[i][j]) THEN 1
    ELSE 0

\* Statistical Analysis: the correlation matrix and the p-value matrix of the
\* clean view, the significance matrix, and the best-fit pairs taken from
\* the first two.
StatisticsView(fd) ==
    LET corr_matrix == corr(fd)
        p_values == [i \in DOMAIN variables |->
                        [j \in DOMAIN variables |-> PValueEntry(fd, i, j)]]
    IN  [NoView EXCEPT
            !.section = menu_options[3],
            !.corr_matrix = corr_matrix,
            !.p_values = p_values,
            !.significance_matrix =
                [i \in DOMAIN variables |->
                    [j \in DOMAIN variables |-> SignificanceCell(p_values, i, j)]],
            !.best_pairs =
                Top6(SortByR2Descending(CollectPairs(corr_matrix, p_values, 1)))]

-----------------------------------------------------------------------------
(* Interannual Variability: 2024 against 2025 *)

\* What a call of a scipy.stats test does: it raises, or it returns a
\* p-value (in thousandths, or NaN).  The state variable scipy gives, for
\* every variable, the outcome of mannwhitneyu and of ttest_ind on the two
\* year samples of that variable: the same samples give the same outcome in
\* every run.
Raises == [raised |-> TRUE, p |-> NaN]
Returns(p) == [raised |-> FALSE, p |-> p]

\* data[data['datetime'].dt.year == year][var].dropna()
YearSample(d, year, var) ==
    LET InYear(row) == dt_year(row.cells["datetime"]) = year
    IN  dropna(Column(SelectSeq(d, InYear), var))

\* try: _, p = test(data_2024, data_2025) ... except: p = np.nan
\* The result text is "N/A" when the call raised, "p=<value>" otherwise.
TryTest(outcome) ==
    IF outcome.raised
    THEN [available |-> FALSE, p |-> NaN]
    ELSE [available |-> TRUE, p |-> outcome.p]

\* Variant: mw_p <= 0.05
PBelow005_Inclusive(p) == p # NaN /\ p <= 50

\* mw_p < 0.05 on a p-value in thousandths: False for NaN.
PBelow005(p) == p # NaN /\ p < 50

\* Variant: the change taken relative to the 2025 mean.
PctChange_OverMean2025(mean_2024, mean_2025) ==
    IF NotZero(mean_2024)
    THEN FMul(FDiv(FSub(mean_2025, mean_2024), mean_2025), Frac(100, 1))
    ELSE Inf(1)

\* ((mean_2025 - mean_2024) / mean_2024) * 100 if mean_2024 != 0 else np.inf
PctChange(mean_2024, mean_2025) ==
    IF NotZero(mean_2024)
    THEN FMul(FDiv(FSub(mean_2025, mean_2024), mean_2024), Frac(100, 1))
    ELSE Inf(1)

\* One pass of the loop over variables_to_plot: the two year samples, the two
\* guarded tests, and the record appended to summary_data.
CompareYears(d, lib, var) ==
    LET data_2024 == YearSample(d, 2024, var)
        data_2025 == YearSample(d, 2025, var)
        mw == TryTest(lib[var].mannwhitneyu)
        tt == TryTest(lib[var].ttest_ind)
        mean_2024 == mean(data_2024)
        mean_2025 == mean(data_2025)
    IN  [ tests |-> [Variable |-> var,
                     mw_available |-> mw.available, mw_p |-> mw.p,
                     t_available |-> tt.available, t_p |-> tt.p,
                     t_equal_var |-> TRUE],
          summary |-> [Variable |-> var,
                       Mean_2024 |-> mean_2024,
                       Mean_2025 |-> mean_2025,
                       Pct_Change |-> PctChange(mean_2024, mean_2025),
                       Significance |-> IF PBelow005(mw.p) THEN "Significant"
                                        ELSE "Not Significant",
                       P_Value |-> mw.p] ]

\* if significant_changes: the heading of the list, else the success box.
ChangesReport(significant_changes) ==
    IF significant_changes # <<>>
    THEN "Significant Changes Detected:"
    ELSE "NO SIGNIFICANT INTERANNUAL CHANGES DETECTED"

\* Variant: the tests called without try/except, so that the first call that
\* raises ends the run with the records appended so far.
InterannualView_Unguarded(d, lib) ==
    LET passes == [k \in DOMAIN variables |-> CompareYears(d, lib, variables[k])]
        Fails(k) == lib[variables[k]].mannwhitneyu.raised
                        \/ lib[variables[k]].ttest_ind.raised
        done == Cardinality({k \in DOMAIN variables :
                                \A m \in 1..k : ~Fails(m)})
        summary_data == [k \in 1..done |-> passes[k].summary]
        IsSignificant(row) == row.P_Value # NaN /\ row.P_Value < 50
    IN  [NoView EXCEPT
            !.section = menu_options[4],
            !.test_results = [k \in 1..done |-> passes[k].tests],
            !.summary_data = summary_data,
            !.significant_changes =
                IF done = Len(variables) THEN SelectSeq(summary_data, IsSignificant)
                ELSE <<>>,
            !.exception = IF done = Len(variables) THEN "" ELSE "ValueError"]

\* data[data['datetime'].dt.year == year].copy() with its month column: the
\* copy the monthly means are grouped on.
WithMonth(d, year) ==
    LET InYear(row) == dt_year(row.cells["datetime"]) = year
        copy == SelectSeq(d, InYear)
    IN  WithColumn(copy, "month",
                   [i \in DOMAIN copy |-> dt_month(copy[i].cells["datetime"])])

\* Variant: the significant changes taken as the rows whose P_Value is not
\* at or above 0.05, which keeps the rows without a p-value.
InterannualView_NotAbove(d, lib) ==
    LET passes == [k \in DOMAIN variables |-> CompareYears(d, lib, variables[k])]
        summary_data == [k \in DOMAIN variables |-> passes[k].summary]
        NotAbove(row) == row.P_Value = NaN \/ row.P_Value < 50
        significant_changes == SelectSeq(summary_data, NotAbove)
    IN  [NoView EXCEPT
            !.section = menu_options[4],
            !.data_2024 = WithMonth(d, 2024),
            !.data_2025 = WithMonth(d, 2025),
            !.test_results = [k \in DOMAIN variables |-> passes[k].tests],
            !.summary_data = summary_data,
            !.significant_changes = significant_changes,
            !.changes_report = ChangesReport(significant_changes)]

\* Interannual Variability: the loop over the nine variables on the whole
\* clean dataset (the year copies with their month column, the tests, the
\* summary record), then the rows of summary_data with P_Value < 0.05.
InterannualView(d, lib) ==
    LET passes == [k \in DOMAIN variables |-> CompareYears(d, lib, variables[k])]
        summary_data == [k \in DOMAIN variables |-> passes[k].summary]
        IsSignificant(row) == row.P_Value # NaN /\ row.P_Value < 50
        significant_changes == SelectSeq(summary_data, IsSignificant)
    IN  [NoView EXCEPT
            !.section = menu_options[4],
            !.data_2024 = WithMonth(d, 2024),
            !.data_2025 = WithMonth(d, 2025),
            !.test_results = [k \in DOMAIN variables |-> passes[k].tests],
            !.summary_data = summary_data,
            !.significant_changes = significant_changes,
            !.changes_report = ChangesReport(significant_changes)]

-----------------------------------------------------------------------------
(* Section routing *)

\* Variant: the year comparison computed on the date-filtered clean view.
Render_FilteredYears(section, d, fd, frd, lib) ==
    CASE section = menu_options[1] -> AboutView(d)
      [] section = menu_options[2] -> OverviewView(fd, frd)
      [] section = menu_options[3] -> StatisticsView(fd)
      [] section = menu_options[4] -> InterannualView(fd, lib)
      [] section = menu_options[5] -> [NoView EXCEPT !.section = menu_options[5]]
      [] section = menu_options[6] -> [NoView EXCEPT !.section = menu_options[6]]
      [] OTHER -> NoView

\* The if/elif chain on selected_section: the view of the selected section.
\* The last two sections show text only.
Render(section, d, fd, frd, lib) ==
    CASE section = menu_options[1] -> AboutView(d)
      [] section = menu_options[2] -> OverviewView(fd, frd)
      [] section = menu_options[3] -> StatisticsView(fd)
      [] section = menu_options[4] -> InterannualView(d, lib)
      [] section = menu_options[5] -> [NoView EXCEPT !.section = menu_options[5]]
      [] section = menu_options[6] -> [NoView EXCEPT !.section = menu_options[6]]
      [] OTHER -> NoView

\* Variant: the helper columns written to the dataset the view reads.
DataAfterView_InPlace(section, d) ==
    CASE section = menu_options[1] ->
            WithColumn(d, "x_axis", Column(d, "datetime"))
      [] section = menu_options[4] ->
            WithColumn(d, "month",
                       [i \in DOMAIN d |-> dt_month(d[i].cells["datetime"])])
      [] OTHER -> d

\* The module-level clean dataset once the routed view has run: the views
\* add their helper columns (x_axis, month) to copies only.
DataAfterView(section, d) == d

-----------------------------------------------------------------------------
(* The script *)

\* The installed tests behaving unremarkably on dataset d: a p-value of 0.5
\* for every variable with values in both years, nan when a sample is empty.
NominalScipy(d) ==
    [v \in Variables |->
        LET p == IF \/ v \notin ColumnsOf(d)
                    \/ YearSample(d, 2024, v) = <<>>
                    \/ YearSample(d, 2025, v) = <<>>
                 THEN NaN ELSE 500
        IN  [mannwhitneyu |-> Returns(p), ttest_ind |-> Returns(p)]]

\* The first four sections index the dataset by 'datetime' and by every
\* sensor variable: a column that is not there raises KeyError.  The last two
\* sections read no data.
RunView(section, d, fd, frd, lib) ==
    IF /\ section \in {menu_options[k] : k \in 1..4}
       /\ ~((Variables \cup {"datetime"}) \subseteq ColumnsOf(d))
    THEN [NoView EXCEPT !.section = section, !.exception = "KeyError"]
    ELSE Render(section, d, fd, frd, lib)

\* First run of the script on file f with library lib: both loaders run (and
\* are cached), the session starts on the first menu option, the picker
\* shows its default value, both datasets are filtered with it and the
\* selected section is rendered.
FirstRun(f, lib) ==
    LET loaded == load_data(f)
    IN  /\ file = f
        /\ file_status = "ok"
        /\ scipy = lib
        /\ data = DataAfterView(menu_options[1], loaded)
        /\ raw_data = load_raw_data(f)
        /\ selected_section = menu_options[1]
        /\ date_range = DefaultRange(loaded)
        /\ filtered_data = filter_by_date_range(loaded, date_range)
        /\ filtered_raw_data = filter_by_date_range(raw_data, date_range)
        /\ view = RunView(selected_section, loaded, filtered_data,
                          filtered_raw_data, lib)
        /\ error = view.exception

Init == \E f \in Files : FirstRun(f, NominalScipy(load_data(f)))

\* The sidebar is drawn only once both loaders have returned.
Loaded == data # <<>>

\* Variant: only the clean dataset filtered, the raw view left whole.
ChangeDateRange_CleanOnly(dr) ==
    /\ Loaded
    /\ dr # date_range
    /\ date_range' = dr
    /\ filtered_data' = filter_by_date_range(data, dr)
    /\ filtered_raw_data' = raw_data
    /\ view' = RunView(selected_section, data, filtered_data',
                       filtered_raw_data', scipy)
    /\ error' = view'.exception
    /\ data' = DataAfterView(selected_section, data)
    /\ UNCHANGED <<file, file_status, scipy, raw_data, selected_section>>

\* Variant: selected_section set to the first option on every rerun that no
\* button caused.
ChangeDateRange_ResetSection(dr) ==
    /\ Loaded
    /\ dr # date_range
    /\ date_range' = dr
    /\ selected_section' = menu_options[1]
    /\ filtered_data' = filter_by_date_range(data, dr)
    /\ filtered_raw_data' = filter_by_date_range(raw_data, dr)
    /\ view' = RunView(selected_section', data, filtered_data',
                       filtered_raw_data', scipy)
    /\ error' = view'.exception
    /\ data' = DataAfterView(selected_section', data)
    /\ UNCHANGED <<file, file_status, scipy, raw_data>>

\* The user changes the date picker: the script reruns, the cached loaders
\* return the same datasets, both are filtered with the new value and the
\* selected section is rendered again.
ChangeDateRange(dr) ==
    /\ Loaded
    /\ dr # date_range
    /\ date_range' = dr
    /\ filtered_data' = filter_by_date_range(data, dr)
    /\ filtered_raw_data' = filter_by_date_range(raw_data, dr)
    /\ view' = RunView(selected_section, data, filtered_data',
                       filtered_raw_data', scipy)
    /\ error' = view'.exception
    /\ data' = DataAfterView(selected_section, data)
    /\ UNCHANGED <<file, file_status, scipy, raw_data, selected_section>>

\* The user clicks a navigation button: the script reruns, the button sets
\* st.session_state.selected_section, the date picker keeps its value and
\* the clicked section is rendered.
ClickNavigation(option) ==
    /\ Loaded
    /\ option # selected_section
    /\ selected_section' = option
    /\ filtered_data' = filter_by_date_range(data, date_range)
    /\ filtered_raw_data' = filter_by_date_range(raw_data, date_range)
    /\ view' = RunView(option, data, filtered_data', filtered_raw_data', scipy)
    /\ error' = view'.exception
    /\ data' = DataAfterView(option, data)
    /\ UNCHANGED <<file, file_status, scipy, raw_data, date_range>>

Next == \E dr \in DateInputs(data) : ChangeDateRange(dr)

Spec == Init /\ [][Next]_vars

-----------------------------------------------------------------------------
(* Browsing the views: files of dated samples, two samples a day *)

MaxStatRows == 3    \* rows in a file of the statistics runs

\* The day and hour of the i-th sample of a dated file: two samples a day
\* from 2024-12-31 (day 366) on, so that rows 1 and 2 fall in 2024 and all
\* later rows in 2025.
ViewDayOf(i) == 366 + (i - 1) \div 2
ViewHourOf(i) == 12 * ((i - 1) % 2)

\* The file holding the readings rs, in order, at those dates.
DatedFile(rs) ==
    [i \in DOMAIN rs |->
        ("DateTime (UTC+00:00)" :> <<ViewDayOf(i), ViewHourOf(i)>>) @@ rs[i]]

\* Readings for the statistics: temperature, pH and alkalinity lie on one
\* line, salinity follows them very closely (r^2 = 0.9992) and chlorophyll
\* less closely (r^2 = 0.964), pressure does not, one turbidity reading is far
\* off, dissolved oxygen is never measured and pCO2 is missing in one reading.
StatReadings ==
    { Reading(1, 1, 1, 1, 1, 5, NaN, 1, 2000),
      Reading(2, 3, 2, 1, 11, 4, NaN, NaN, 2002),
      Reading(3, 2, 4, 50, 22, 3, NaN, 2, 2004) }

StatFiles ==
    {DatedFile(rs) : rs \in UNION {[1..n -> StatReadings] : n \in 1..MaxStatRows}}

InitStatistics == \E f \in StatFiles : FirstRun(f, NominalScipy(load_data(f)))

\* Any navigation button, any value of the date picker (the sidebar is there
\* once the datasets are loaded).
NextViews ==
    \/ \E k \in DOMAIN menu_options : ClickNavigation(menu_options[k])
    \/ Loaded /\ \E dr \in DateInputs(data) : ChangeDateRange(dr)

SpecStatistics == InitStatistics /\ [][NextViews]_vars

-----------------------------------------------------------------------------
(* Comparing the years: files with samples of 2024 and of 2025 *)

MaxYearRows == 4    \* rows in a file of the year-comparison runs

\* Readings for the year comparison: temperature around 0, pressure 1, 3, 5,
\* 7, chlorophyll measured in the first two readings only, salinity in the
\* last two only, dissolved oxygen never, pCO2 missing in one reading.
YearReadings ==
    { Reading(0, 1, 1, 1, NaN, 7, NaN, 4, 2000),
      Reading(1, 3, 2, 1, NaN, 8, NaN, NaN, 2100),
      Reading(-1, 5, NaN, 1, 1, 7, NaN, 2, 2000),
      Reading(2, 7, NaN, 1, 2, 8, NaN, 2, 2100) }

YearFiles ==
    {DatedFile(rs) : rs \in UNION {[1..n -> YearReadings] : n \in 1..MaxYearRows}}

\* What the two tests of an installed scipy do.  Called with an empty sample
\* ttest_ind returns nan and mannwhitneyu raises or returns nan, depending on
\* the release; called with two non-empty samples a test returns a p-value
\* (here 0.010 or 0.500) or raises on input it rejects.
EmptyOutcomes ==
    { [mannwhitneyu |-> Raises, ttest_ind |-> Returns(NaN)],
      [mannwhitneyu |-> Returns(NaN), ttest_ind |-> Returns(NaN)] }
FullOutcomes ==
    { [mannwhitneyu |-> Returns(10), ttest_ind |-> Returns(10)],
      [mannwhitneyu |-> Returns(500), ttest_ind |-> Returns(500)],
      [mannwhitneyu |-> Raises, ttest_ind |-> Returns(500)],
      [mannwhitneyu |-> Returns(10), ttest_ind |-> Raises] }

\* The libraries the script can run against on dataset d: one behaviour on
\* empty samples and one on non-empty samples, for every variable.
ScipyBuilds(d) ==
    LET empty == {v \in Variables :
                     YearSample(d, 2024, v) = <<>> \/ YearSample(d, 2025, v) = <<>>}
    IN  { [v \in Variables |-> IF v \in empty THEN none ELSE full] :
          none \in EmptyOutcomes, full \in FullOutcomes }

InitYears ==
    \E f \in YearFiles : \E lib \in ScipyBuilds(load_data(f)) : FirstRun(f, lib)

\* The sections the year-comparison runs move between.
YearSections == {menu_options[1], menu_options[4], menu_options[6]}

NextYears == \E option \in YearSections : ClickNavigation(option)

SpecYears == InitYears /\ [][NextYears]_vars

-----------------------------------------------------------------------------
(* Significance decisions: the statistics files against tests whose p-values
   lie below, on and above 0.05 *)

\* p-values (in thousandths) a test returns on two non-empty samples: 0.010,
\* exactly 0.050, and 0.500.
SignificanceLevels == <<10, 50, 500>>

\* Libraries whose tests return, from variable to variable, the three levels
\* in turn (starting at a different one in each library), and nan where a
\* year sample is empty.
SignificanceBuilds(d) ==
    { [v \in Variables |->
         LET k == CHOOSE m \in DOMAIN variables : variables[m] = v
             p == IF YearSample(d, 2024, v) = <<>> \/ YearSample(d, 2025, v) = <<>>
                  THEN NaN
                  ELSE SignificanceLevels[((k + shift) % Len(SignificanceLevels)) + 1]
         IN  [mannwhitneyu |-> Returns(p), ttest_ind |-> Returns(p)]] :
      shift \in DOMAIN SignificanceLevels }

InitSignificance ==
    \E f \in StatFiles : \E lib \in SignificanceBuilds(load_data(f)) :
        FirstRun(f, lib)

\* The sections in which a significance decision is taken, and the first one.
SignificanceSections == {menu_options[1], menu_options[3], menu_options[4]}

NextSignificance == \E option \in SignificanceSections : ClickNavigation(option)

SpecSignificance == InitSignificance /\ [][NextSignificance]_vars

-----------------------------------------------------------------------------
(* Starting the script on a source that may be missing or incomplete *)

MaxLoadRows == 2    \* rows in a file of the start-up runs

\* The state of data/dichosocean_prepared.csv when the script starts.
FileStatuses == {"ok", "missing", "unreadable"}

\* File f without the column under header h.
WithoutColumn(f, h) ==
    [i \in DOMAIN f |-> [c \in DOMAIN f[i] \ {h} |-> f[i][c]]]

\* Complete files, and the same files with one of the ten columns left out.
LoadFiles ==
    LET whole == {DatedFile(rs) :
                     rs \in UNION {[1..n -> StatReadings] : n \in 1..MaxLoadRows}}
    IN  whole \cup {WithoutColumn(f, h) : f \in whole, h \in DOMAIN columns}

\* The column headers of a (non-empty) file.
HeadersOf(f) == DOMAIN f[1]

\* The exception pd.read_csv raises, "" if it returns.
ReadCsvError(status) ==
    CASE status = "missing" -> "FileNotFoundError"
      [] status = "unreadable" -> "PermissionError"
      [] OTHER -> ""

\* The exception load_data() raises, "" if it returns: read_csv's, or
\* KeyError at the first statement that indexes a column the renamed frame
\* does not have (datetime, chlorophyll_a, turbidity, ta).
LoadDataError(status, f) ==
    IF ReadCsvError(status) # "" THEN ReadCsvError(status)
    ELSE IF \E h \in {"DateTime (UTC+00:00)", "Chlorophyll (ug/L)",
                      "Turbidity (NTU)", "TA (ueq/kg)"} : h \notin HeadersOf(f)
         THEN "KeyError"
    ELSE ""

\* The exception load_raw_data() raises, "" if it returns: it indexes the
\* datetime column only.
LoadRawDataError(status, f) ==
    IF ReadCsvError(status) # "" THEN ReadCsvError(status)
    ELSE IF "DateTime (UTC+00:00)" \notin HeadersOf(f) THEN "KeyError"
    ELSE ""

\* The script stopped at data = load_data() or raw_data = load_raw_data():
\* the exception is not caught, nothing is assigned and nothing is drawn.
LoadFailure(f, status, exception) ==
    /\ file = IF status = "ok" THEN f ELSE <<>>
    /\ file_status = status
    /\ scipy = NominalScipy(<<>>)
    /\ data = <<>>
    /\ raw_data = <<>>
    /\ selected_section = menu_options[1]
    /\ date_range = <<>>
    /\ filtered_data = <<>>
    /\ filtered_raw_data = <<>>
    /\ view = NoView
    /\ error = exception

\* The start of the script on file f in the given state.
StartScript(f, status) ==
    IF LoadDataError(status, f) # ""
    THEN LoadFailure(f, status, LoadDataError(status, f))
    ELSE IF LoadRawDataError(status, f) # ""
         THEN LoadFailure(f, status, LoadRawDataError(status, f))
    ELSE FirstRun(f, NominalScipy(load_data(f)))

InitLoad == \E status \in FileStatuses : \E f \in LoadFiles : StartScript(f, status)

SpecLoad == InitLoad /\ [][NextViews]_vars

-----------------------------------------------------------------------------
(* The Data Overview of files long enough to hold an outlier *)

MaxOverviewRows == 4    \* rows in a file of the overview runs

\* Readings for the outlier summary.  In a file holding the first reading
\* twice and the two others once, the largest temperature (0, 0, 1, 5) lies
\* exactly on the upper fence and the smallest pCO2 (10, 10, 9, 5) exactly on
\* the lower one, the largest pressure (0, 0, 1, 6) lies above the upper
\* fence and the smallest pH (7, 7, 6, 1) below the lower one, and the
\* chlorophyll reading 300 is an outlier of the raw data that load_data
\* removes from the clean data.  Salinity is missing in one reading.
OverviewReadings ==
    { Reading(0, 0, 0, 1, NaN, 7, NaN, 10, 2000),
      Reading(1, 1, 1, 1, 34, 6, NaN, 9, 2000),
      Reading(5, 6, 300, 1, 35, 1, NaN, 5, 2000) }

OverviewFiles ==
    {DatedFile(rs) :
        rs \in UNION {[1..n -> OverviewReadings] : n \in 1..MaxOverviewRows}}

InitOverview == \E f \in OverviewFiles : FirstRun(f, NominalScipy(load_data(f)))

\* The About and Data Overview buttons, and any value of the date picker.
NextOverview ==
    \/ \E k \in 1..2 : ClickNavigation(menu_options[k])
    \/ \E dr \in DateInputs(data) : ChangeDateRange(dr)

SpecOverview == InitOverview /\ [][NextOverview]_vars

-----------------------------------------------------------------------------
(* What the source file says, read without the loaders *)

\* The calendar day written in the DateTime cell of file row i.
FileDay(i) == file[i]["DateTime (UTC+00:00)"][1]

\* The value of a sensor header in file row i.
FileValue(i, h) == file[i][h]

\* The turbidity column of the whole file and its 99th percentile (x100).
FileTurbidity == [i \in 1..Len(file) |-> file[i]["Turbidity (NTU)"]]
FullThreshold == quantile_x100(FileTurbidity, 99)

\* The index labels of a DataFrame, in row order.
Labels(df) == [k \in DOMAIN df |-> df[k].index]

\* The three columns load_data scrubs.
Scrubbed == {"chlorophyll_a", "turbidity", "ta"}

-----------------------------------------------------------------------------
(* C1 *)

\* C1: load_data and load_raw_data return the same number of rows in the
\* same order (the file's): row i of both carries index label i-1 and the
\* timestamp of file row i; the outlier rules drop and reorder nothing.
C1_SameRowsSameOrder ==
    /\ Len(data) = Len(raw_data)
    /\ Len(data) = Len(file)
    /\ \A i \in 1..Len(file) :
        /\ data[i].index = i - 1
        /\ raw_data[i].index = i - 1
        /\ data[i].cells["datetime"] = raw_data[i].cells["datetime"]
        /\ date(data[i].cells["datetime"]) = FileDay(i)

\* A file of several rows in which a rule has nulled a cell.
C1_Witness ==
    /\ Len(file) >= 2
    /\ Len(data) = Len(raw_data)
    /\ \E i \in 1..Len(data) : data[i] # raw_data[i]

-----------------------------------------------------------------------------
(* C2 *)

ChlorophyllAndTaInBounds(df) ==
    \A k \in 1..Len(df) :
        /\ df[k].cells["chlorophyll_a"] = NaN \/ df[k].cells["chlorophyll_a"] <= 200
        /\ df[k].cells["ta"] = NaN \/ df[k].cells["ta"] >= 2000

\* C2: in the clean dataset and in every date-filtered view of it, every
\* chlorophyll_a is null or <= 200 and every ta is null or >= 2000.
C2_CleanWithinLimits ==
    /\ ChlorophyllAndTaInBounds(data)
    /\ ChlorophyllAndTaInBounds(filtered_data)

\* A proper date-filtered view holding a row whose file values 250 and 1999
\* were nulled, and a row whose values sit on the limits 200 and 2000.
C2_Witness ==
    /\ Len(date_range) = 2
    /\ Len(filtered_data) < Len(data)
    /\ \E k \in 1..Len(filtered_data) :
        LET i == filtered_data[k].index + 1
        IN  /\ FileValue(i, "Chlorophyll (ug/L)") = 250
            /\ FileValue(i, "TA (ueq/kg)") = 1999
            /\ filtered_data[k].cells["chlorophyll_a"] = NaN
            /\ filtered_data[k].cells["ta"] = NaN
    /\ \E k \in 1..Len(filtered_data) :
        /\ filtered_data[k].cells["chlorophyll_a"] = 200
        /\ filtered_data[k].cells["ta"] = 2000

-----------------------------------------------------------------------------
(* C3 *)

\* C3: every clean turbidity is null or <= the 99th percentile of the whole
\* file's turbidity column; a file value equal to that threshold (or below)
\* is kept, a file value strictly above it is nulled.
C3_TurbidityPercentile ==
    \A i \in 1..Len(data) :
        LET c == data[i].cells["turbidity"]
            r == FileValue(i, "Turbidity (NTU)")
        IN  /\ c = NaN \/ 100 * c <= FullThreshold
            /\ (r # NaN /\ 100 * r <= FullThreshold) => c = r
            /\ (r # NaN /\ 100 * r > FullThreshold) => c = NaN
            /\ r = NaN => c = NaN

\* Several turbidity values, the largest of which equals the threshold and
\* is kept.
C3_Witness ==
    /\ Cardinality({i \in 1..Len(file) : FileTurbidity[i] # NaN}) >= 3
    /\ \E i, j \in 1..Len(file) :
        /\ FileTurbidity[j] # NaN
        /\ FileTurbidity[j] < FileTurbidity[i]
        /\ 100 * FileTurbidity[i] = FullThreshold
        /\ data[i].cells["turbidity"] = FileTurbidity[i]

-----------------------------------------------------------------------------
(* C4 *)

\* C4: whatever date range is selected, every retained row carries the
\* turbidity it has in the unfiltered clean dataset, which is nulled exactly
\* when the file value exceeds the threshold of the whole file: the set of
\* nulled cells does not depend on the range.
C4_NulledSetRangeInvariant ==
    \A k \in 1..Len(filtered_data) :
        LET i == filtered_data[k].index + 1
            r == FileValue(i, "Turbidity (NTU)")
        IN  /\ filtered_data[k].cells["turbidity"] = data[i].cells["turbidity"]
            /\ filtered_data[k].cells["turbidity"] =
                   IF GtScaled(r, FullThreshold) THEN NaN ELSE r

\* A proper sub-range whose view keeps a turbidity value that a threshold
\* recomputed over the view alone would null.
C4_Witness ==
    /\ Len(date_range) = 2
    /\ Len(filtered_data) < Len(data)
    /\ \E k \in 1..Len(filtered_data) :
        /\ filtered_data[k].cells["turbidity"] # NaN
        /\ GtScaled(filtered_data[k].cells["turbidity"],
                    quantile_x100(Column(filtered_data, "turbidity"), 99))

-----------------------------------------------------------------------------
(* C5 *)

\* C5: every cell of the raw dataset holds the file's value, for all nine
\* variables, under the canonical column names.
C5_RawUntouched ==
    /\ Len(raw_data) = Len(file)
    /\ \A i \in 1..Len(file) :
        /\ DOMAIN raw_data[i].cells = Variables \cup {"datetime"}
        /\ \A h \in SensorHeaders :
               raw_data[i].cells[columns[h]] = FileValue(i, h)

\* The example of the claim: a chlorophyll value of 250 is null in the clean
\* dataset and 250 in the raw dataset; likewise a ta of 1999.
C5_Witness ==
    \E i \in 1..Len(file) :
        /\ FileValue(i, "Chlorophyll (ug/L)") = 250
        /\ data[i].cells["chlorophyll_a"] = NaN
        /\ raw_data[i].cells["chlorophyll_a"] = 250
        /\ data[i].cells["ta"] = NaN
        /\ raw_data[i].cells["ta"] = 1999

-----------------------------------------------------------------------------
(* C6 *)

\* The rule of a scrubbed column fires on a raw value.
RuleFires(col, v) ==
    \/ col = "chlorophyll_a" /\ v # NaN /\ v > 200
    \/ col = "turbidity" /\ v # NaN /\ 100 * v > FullThreshold
    \/ col = "ta" /\ v # NaN /\ v < 2000

\* C6: a clean cell differs from the raw cell only where a rule fires, and
\* is then null; every other cell (datetime, the six unscrubbed variables,
\* scrubbed columns whose rule does not fire) is equal in both datasets.
C6_DiffersOnlyWhereRuleFires ==
    /\ Len(data) = Len(raw_data)
    /\ \A i \in 1..Len(raw_data) :
        /\ DOMAIN data[i].cells = DOMAIN raw_data[i].cells
        /\ \A c \in DOMAIN raw_data[i].cells :
            IF c \in Scrubbed /\ RuleFires(c, raw_data[i].cells[c])
            THEN data[i].cells[c] = NaN
            ELSE data[i].cells[c] = raw_data[i].cells[c]

\* One row on which all three rules fire, next to a row with the boundary
\* values 200 and 2000 left as they are.
C6_Witness ==
    /\ \E i \in 1..Len(raw_data) :
        /\ \A c \in Scrubbed :
            /\ raw_data[i].cells[c] # NaN
            /\ data[i].cells[c] = NaN
        /\ \A c \in Variables \ Scrubbed : data[i].cells[c] = raw_data[i].cells[c]
    /\ \E j \in 1..Len(raw_data) :
        /\ data[j].cells["chlorophyll_a"] = 200
        /\ data[j].cells["ta"] = 2000

-----------------------------------------------------------------------------
(* C7 *)

\* The rows of sel are exactly the rows of df whose calendar day, as the
\* file writes it, lies in [start, end], in the order of df.
ExactlyRowsWithin(sel, df, start, end) ==
    /\ \A k \in 1..Len(sel) :
        LET i == sel[k].index + 1
        IN  /\ i \in 1..Len(df)
            /\ sel[k] = df[i]
            /\ start <= FileDay(i) /\ FileDay(i) <= end
    /\ \A i \in 1..Len(df) :
        (start <= FileDay(i) /\ FileDay(i) <= end)
            => \E k \in 1..Len(sel) : sel[k].index = i - 1
    /\ \A k1, k2 \in 1..Len(sel) : k1 < k2 => sel[k1].index < sel[k2].index

\* C7: with a two-element range [start, end] the filtered dataset is exactly
\* the rows whose calendar date d has start <= d <= end, in original order.
C7_InclusiveDateFilter ==
    Len(date_range) = 2 =>
        /\ ExactlyRowsWithin(filtered_data, data, date_range[1], date_range[2])
        /\ ExactlyRowsWithin(filtered_raw_data, raw_data,
                             date_range[1], date_range[2])

\* A one-day range that keeps two late-evening rows of that day and drops a
\* row of another day.
C7_Witness ==
    /\ Len(date_range) = 2
    /\ date_range[1] = date_range[2]
    /\ Len(filtered_data) = 2
    /\ Len(filtered_data) < Len(data)
    /\ \A k \in 1..Len(filtered_data) :
        filtered_data[k].cells["datetime"] > date_range[2] * 24

-----------------------------------------------------------------------------
(* C8 *)

\* C8: with a degenerate range (one date or none) both views are the full
\* datasets.
C8_DegenerateRangePassesThrough ==
    Len(date_range) # 2 =>
        /\ filtered_data = data
        /\ filtered_raw_data = raw_data

\* One date selected while the dataset has rows of another day, all shown.
C8_Witness ==
    /\ Len(date_range) = 1
    /\ \E i \in 1..Len(file) : FileDay(i) # date_range[1]
    /\ Len(filtered_data) = Len(file)
    /\ Len(filtered_raw_data) = Len(file)

-----------------------------------------------------------------------------
(* C9 *)

\* C9: for every date-range input the two views hold the same source rows in
\* the same order.
C9_ViewsRowAligned ==
    /\ Labels(filtered_data) = Labels(filtered_raw_data)
    /\ Column(filtered_data, "datetime") = Column(filtered_raw_data, "datetime")

\* A proper sub-range keeping at least two rows, one of them scrubbed.
C9_Witness ==
    /\ Len(date_range) = 2
    /\ Len(filtered_data) >= 2
    /\ Len(filtered_data) < Len(data)
    /\ Len(filtered_raw_data) = Len(filtered_data)
    /\ \E k \in 1..Len(filtered_data) : filtered_data[k] # filtered_raw_data[k]

-----------------------------------------------------------------------------
(* C10 *)

\* The first and last calendar day written in the file.
FirstDay == CHOOSE d \in {FileDay(i) : i \in 1..Len(file)} :
                \A i \in 1..Len(file) : d <= FileDay(i)
LastDay == CHOOSE d \in {FileDay(i) : i \in 1..Len(file)} :
               \A i \in 1..Len(file) : d >= FileDay(i)

\* C10: the range [date of the minimum timestamp, date of the maximum
\* timestamp], which is the picker's default value, yields views equal to
\* the unfiltered datasets.
C10_FullRangeIsIdentity ==
    /\ DefaultRange(data) = <<FirstDay, LastDay>>
    /\ date_range = <<FirstDay, LastDay>> =>
        /\ filtered_data = data
        /\ filtered_raw_data = raw_data

\* The full range selected over a file whose rows span several days, out of
\* time order, the last day's row being the first of the file.
C10_Witness ==
    /\ date_range = <<FirstDay, LastDay>>
    /\ FirstDay < LastDay
    /\ Len(file) >= 3
    /\ FileDay(1) = LastDay
    /\ filtered_data = data

-----------------------------------------------------------------------------
(* Statistical Analysis: the matrices and the best-fit pairs *)

\* The Statistical Analysis section was rendered in this run.
StatisticsShown == view.section = menu_options[3] /\ view.exception = ""

\* The index labels of the rows of the clean view in which variables i and j
\* both hold a value.
ValidLabels(i, j) ==
    {filtered_data[k].index : k \in
        {m \in DOMAIN filtered_data :
            /\ filtered_data[m].cells[variables[i]] # NaN
            /\ filtered_data[m].cells[variables[j]] # NaN}}

\* r is exactly 1.0
IsOne(r) == r.kind = "num" /\ r.sign = 1 /\ r.num = r.den

\* C11 (as the specification states it): the correlation matrix of every
\* filtered dataset is symmetric and every diagonal entry is exactly 1.0,
\* also for a variable without a value or with one distinct value.  The
\* program's DataFrame.corr() gives nan on the diagonal of such a variable.
C11_SymmetricUnitDiagonal ==
    StatisticsShown =>
        \A i \in DOMAIN variables :
            /\ IsOne(view.corr_matrix[i][i])
            /\ \A j \in DOMAIN variables :
                    view.corr_matrix[i][j] = view.corr_matrix[j][i]

\* C12: in the p-value matrix the diagonal is 0.0; an off-diagonal pair with
\* at most 2 rows where both variables hold a value gets 1.0 and nothing is
\* raised; a pair with more than 2 such rows gets the two-tailed p-value of
\* Pearson's r computed on exactly those rows; the matrix is symmetric.
C12_PValueMatrix ==
    StatisticsShown =>
        \A i \in DOMAIN variables : \A j \in DOMAIN variables :
            LET p == view.p_values[i][j]
                rows == ValidLabels(i, j)
                r == view.corr_matrix[i][j]
            IN  /\ error = ""
                /\ i = j => p = Literal(0, 1)
                /\ i # j /\ Cardinality(rows) <= 2 => p = Literal(1, 1)
                /\ i # j /\ Cardinality(rows) > 2 =>
                        /\ p.rows = rows
                        /\ p.n = Cardinality(rows)
                        /\ r.rows = rows
                        /\ IF r.kind = "nan" THEN p.kind = "nan"
                           ELSE /\ p.kind = "pearsonr"
                                /\ p.num = r.num
                                /\ p.den = r.den
                /\ p = view.p_values[j][i]

\* Reached: a pair with more than 2 shared rows and a defined p-value, a
\* pair that shares only 1 or 2 of the 3 rows of the view, and a pair that
\* shares none.
C12_Witness ==
    /\ StatisticsShown
    /\ Len(filtered_data) > 2
    /\ \E i, j \in DOMAIN variables :
            i # j /\ Cardinality(ValidLabels(i, j)) > 2
                  /\ view.p_values[i][j].kind = "pearsonr"
    /\ \E i, j \in DOMAIN variables :
            i # j /\ Cardinality(ValidLabels(i, j)) \in {1, 2}
    /\ \E i, j \in DOMAIN variables :
            i # j /\ ValidLabels(i, j) = {}

\* The position of a variable in the variable list.
IndexOf(v) == CHOOSE k \in DOMAIN variables : variables[k] = v

\* C13: every best-fit pair is made of two distinct variables of the upper
\* triangle (i < j), no unordered pair appears twice, and every entry has
\* r^2 > 0.8 and p < 0.05.
C13_BestPairs ==
    StatisticsShown =>
        \A k \in DOMAIN view.best_pairs :
            LET e == view.best_pairs[k]
                i == IndexOf(e.var1)
                j == IndexOf(e.var2)
            IN  /\ i < j
                /\ \A m \in DOMAIN view.best_pairs :
                        m # k => {view.best_pairs[m].var1, view.best_pairs[m].var2}
                                    # {e.var1, e.var2}
                /\ e.r = view.corr_matrix[i][j]
                /\ e.r.kind = "num"
                /\ e.r2.num * e.r.den = e.r.num * e.r2.den
                /\ 5 * e.r2.num > 4 * e.r2.den
                /\ e.p = view.p_values[i][j]
                /\ Below005(e.p)

\* Reached: several best-fit pairs are listed while another pair of the
\* upper triangle with r^2 > 0.8 is left out because its p-value is not
\* below 0.05, and a third is left out because its r^2 is not above 0.8.
C13_Witness ==
    /\ StatisticsShown
    /\ Len(view.best_pairs) >= 2
    /\ \E i, j \in DOMAIN variables :
            /\ i < j
            /\ AboveThresholdR(view.corr_matrix[i][j])
            /\ view.p_values[i][j].kind = "pearsonr"
            /\ ~Below005(view.p_values[i][j])
    /\ \E i, j \in DOMAIN variables :
            /\ i < j
            /\ view.corr_matrix[i][j].kind = "num"
            /\ ~AboveThresholdR(view.corr_matrix[i][j])

-----------------------------------------------------------------------------
(* Data Overview: the IQR outlier summary *)

\* The Data Overview section was rendered in this run.
OverviewShown == view.section = menu_options[2] /\ view.exception = ""

\* The values variable k holds in a DataFrame, in row order.
ValuesIn(df, k) == SelectSeq(Column(df, variables[k]), IsValue)

\* C14: a variable without any value in the date-filtered raw dataset gets
\* outlier count 0 and outlier percentage 0, nothing is raised, and the
\* summary of every other variable is still computed (a count within its
\* number of values and the percentage that count makes).
C14_AllNullOutlierSummary ==
    OverviewShown =>
        /\ error = ""
        /\ Len(view.outlier_counts) = Len(variables)
        /\ Len(view.outlier_percentages) = Len(variables)
        /\ \A k \in DOMAIN variables :
                LET n == Len(ValuesIn(filtered_raw_data, k))
                IN  IF n = 0
                    THEN /\ view.outlier_counts[k] = 0
                         /\ view.outlier_percentages[k] = Zero
                    ELSE /\ view.outlier_counts[k] \in 0..n
                         /\ view.outlier_percentages[k]
                                = Frac(100 * view.outlier_counts[k], n)

\* Reached: the overview of a date range in which one variable has no value
\* although the file holds values of it, next to a variable with values.
C14_Witness ==
    /\ OverviewShown
    /\ \E k \in DOMAIN variables :
            /\ ValuesIn(filtered_raw_data, k) = <<>>
            /\ ValuesIn(raw_data, k) # <<>>
    /\ \E k \in DOMAIN variables : ValuesIn(filtered_raw_data, k) # <<>>

-----------------------------------------------------------------------------
(* Interannual Variability: means, percent change and the guarded tests *)

\* The Interannual Variability section was selected in this run.
InterannualSelected == view.section = menu_options[4]

\* The values of variable k measured up to 2024-12-31 (day 366) and from
\* 2025-01-01 to 2025-12-31 (day 731), nulls dropped, in row order.
Values2024(k) ==
    LET Keep(row) == row.cells["datetime"] < 367 * 24
                        /\ row.cells[variables[k]] # NaN
    IN  Column(SelectSeq(data, Keep), variables[k])

Values2025(k) ==
    LET Keep(row) == /\ row.cells["datetime"] >= 367 * 24
                     /\ row.cells["datetime"] < 732 * 24
                     /\ row.cells[variables[k]] # NaN
    IN  Column(SelectSeq(data, Keep), variables[k])

\* sum(s2)/len(s2) compared with sum(s1)/len(s1), both samples non-empty.
MeanGreater(s2, s1) == SumSeq(s2) * Len(s1) > SumSeq(s1) * Len(s2)

\* C15: each year's mean is the mean of that calendar year's non-null values
\* (nulls dropped per year), and the percent change is
\* (mean2 - mean1) / mean1 * 100 whenever mean1 is not 0; 2024 values {1, 3}
\* and 2025 values {5, 7} give means 2.0 and 6.0 and a change of 200%.
C15_YearMeansAndChange ==
    InterannualSelected =>
        /\ view.exception = ""
        /\ \A k \in DOMAIN variables :
                LET row == view.summary_data[k]
                    v1 == Values2024(k)
                    v2 == Values2025(k)
                    s1 == SumSeq(v1)
                    s2 == SumSeq(v2)
                IN  /\ v1 # <<>> => row.Mean_2024 = Frac(s1, Len(v1))
                    /\ v2 # <<>> => row.Mean_2025 = Frac(s2, Len(v2))
                    /\ v1 # <<>> /\ v2 # <<>> /\ s1 # 0 =>
                            /\ row.Pct_Change.kind = "num"
                            /\ row.Pct_Change.num * (Len(v2) * s1)
                                 = row.Pct_Change.den * 100
                                     * (s2 * Len(v1) - s1 * Len(v2))
                    /\ v1 = <<1, 3>> /\ v2 = <<5, 7>> =>
                            /\ row.Mean_2024 = Frac(2, 1)
                            /\ row.Mean_2025 = Frac(6, 1)
                            /\ row.Pct_Change = Frac(200, 1)

\* Reached: a comparison in which one variable has the values 1, 3 in 2024
\* and 5, 7 in 2025, and another lost a null of one year only.
C15_Witness ==
    /\ InterannualSelected
    /\ \E k \in DOMAIN variables :
            Values2024(k) = <<1, 3>> /\ Values2025(k) = <<5, 7>>
    /\ \E k \in DOMAIN variables :
            /\ Values2024(k) # <<>> /\ Values2025(k) # <<>>
            /\ Len(Values2024(k)) # Len(Values2025(k))
            /\ view.summary_data[k].Pct_Change.kind = "num"
            /\ view.summary_data[k].Pct_Change.num < 0

\* C16 (as the specification states it): when the 2024 mean is exactly 0 the
\* percent change is a signed infinity, +infinity when the 2025 mean is
\* greater and -infinity when it is smaller, and nothing is raised.  The
\* program returns +infinity whatever the sign.
C16_SignedInfinity ==
    InterannualSelected =>
        /\ view.exception = ""
        /\ \A k \in DOMAIN variables :
                LET row == view.summary_data[k]
                    v1 == Values2024(k)
                    v2 == Values2025(k)
                IN  v1 # <<>> /\ SumSeq(v1) = 0 /\ v2 # <<>> =>
                        /\ MeanGreater(v2, v1) => row.Pct_Change = Inf(1)
                        /\ MeanGreater(v1, v2) => row.Pct_Change = Inf(-1)

\* C17: a test that raises is caught and reported as unavailable (N/A,
\* p = NaN) for that test alone; the other test of the variable is still
\* evaluated, the loop goes on, and the summary has one record for each of
\* the nine variables.
C17_TestFailuresAreLocal ==
    InterannualSelected =>
        /\ view.exception = ""
        /\ error = ""
        /\ Len(view.summary_data) = 9
        /\ Len(view.test_results) = 9
        /\ \A k \in DOMAIN variables :
                LET t == view.test_results[k]
                    lib == scipy[variables[k]]
                IN  /\ view.summary_data[k].Variable = variables[k]
                    /\ t.Variable = variables[k]
                    /\ IF lib.mannwhitneyu.raised
                       THEN ~t.mw_available /\ t.mw_p = NaN
                       ELSE t.mw_available /\ t.mw_p = lib.mannwhitneyu.p
                    /\ IF lib.ttest_ind.raised
                       THEN ~t.t_available /\ t.t_p = NaN
                       ELSE t.t_available /\ t.t_p = lib.ttest_ind.p
                    /\ view.summary_data[k].P_Value = t.mw_p

\* Reached: the Mann-Whitney test raised for a variable whose t-test gave a
\* p-value, and both tests returned for a later variable.
C17_Witness ==
    /\ InterannualSelected
    /\ Len(view.summary_data) = 9
    /\ \E k \in DOMAIN variables :
            /\ scipy[variables[k]].mannwhitneyu.raised
            /\ ~view.test_results[k].mw_available
            /\ view.test_results[k].t_available
            /\ view.test_results[k].t_p # NaN
            /\ \E m \in DOMAIN variables :
                    /\ m > k
                    /\ view.test_results[m].mw_available
                    /\ view.test_results[m].t_available

\* C18 (as the specification states it): when exactly one year of a variable
\* has no value the comparison does not crash, both tests are unavailable
\* (no p-value), the mean of the other year is reported, and the mean of the
\* empty year and the percent change are NaN.  With a 2024 mean of exactly 0
\* and no value in 2025 the program reports +infinity.
C18_OneEmptyYear ==
    InterannualSelected =>
        /\ view.exception = ""
        /\ \A k \in DOMAIN variables :
                LET row == view.summary_data[k]
                    t == view.test_results[k]
                    v1 == Values2024(k)
                    v2 == Values2025(k)
                IN  (v1 = <<>>) # (v2 = <<>>) =>
                        /\ t.mw_p = NaN /\ t.t_p = NaN
                        /\ row.Mean_2024 =
                              IF v1 = <<>> THEN NaNf ELSE Frac(SumSeq(v1), Len(v1))
                        /\ row.Mean_2025 =
                              IF v2 = <<>> THEN NaNf ELSE Frac(SumSeq(v2), Len(v2))
                        /\ row.Pct_Change = NaNf

-----------------------------------------------------------------------------
(* Loading: what a bad source leads to *)

\* The source cannot give a complete dataset: the file is missing or
\* unreadable, or one of the ten columns is not in it.
BadSource ==
    \/ file_status # "ok"
    \/ ~(DOMAIN columns \subseteq HeadersOf(file))

\* The run ended inside a loader: an exception, no dataset, nothing drawn.
LoadFailed == error # "" /\ data = <<>> /\ raw_data = <<>> /\ view = NoView

\* A DataFrame the views got with all of its columns.
CompleteFrame(df) == (Variables \cup {"datetime"}) \subseteq ColumnsOf(df)

\* C19 (as the specification states it): a load fails with an error of its
\* own when the source file is missing, unreadable or lacks a required
\* column, for both loaders, and no partially loaded dataset reaches the
\* views.  The program loads a file without a sensor column that no outlier
\* rule reads and hands the incomplete dataset to the views.
C19_LoadFailsOnBadSource ==
    /\ BadSource => LoadFailed
    /\ data # <<>> => CompleteFrame(data)
    /\ raw_data # <<>> => CompleteFrame(raw_data)

-----------------------------------------------------------------------------
(* The shared datasets *)

-----------------------------------------------------------------------------
(* Statistical Analysis: the rows behind r and p, the order and the length
   of the best-fit list *)

\* C21: for every pair of variables, r and the p-value are computed from one
\* row set: the rows of the date-filtered clean dataset in which both
\* variables of the pair hold a value, whatever the other seven variables
\* hold in those rows.  (A pair with at most 2 such rows gets its r from
\* them and the literal 1.0 as p.)
C21_SameRowsForRAndP ==
    StatisticsShown =>
        \A i \in DOMAIN variables : \A j \in DOMAIN variables :
            i # j =>
                LET r == view.corr_matrix[i][j]
                    p == view.p_values[i][j]
                IN  /\ r.rows = ValidLabels(i, j)
                    /\ Cardinality(ValidLabels(i, j)) > 2 =>
                            p.rows = r.rows /\ p.n = Cardinality(r.rows)

\* Reached: a pair with a correlation coefficient and a computed p-value over
\* 3 rows, in one of which a third variable (not the never-measured
\* dissolved oxygen) holds no value.
C21_Witness ==
    /\ StatisticsShown
    /\ \E i, j, k \in DOMAIN variables :
            /\ i # j /\ k # i /\ k # j /\ variables[k] # "dissolved_oxygen"
            /\ Cardinality(ValidLabels(i, j)) > 2
            /\ view.corr_matrix[i][j].kind = "num"
            /\ view.p_values[i][j].kind = "pearsonr"
            /\ ValidLabels(i, j) \ ValidLabels(i, k) # {}
            /\ ValidLabels(i, k) # {}

\* Pair (i1, j1) comes before pair (i2, j2) in the row-major enumeration of
\* the upper triangle.
EnumeratedBefore(i1, j1, i2, j2) == i1 < i2 \/ (i1 = i2 /\ j1 < j2)

\* C22: the best-fit list is in descending order of r^2, and two entries of
\* equal r^2 stand in their enumeration order (smaller i first, then
\* smaller j).
C22_DescendingStableOrder ==
    StatisticsShown =>
        \A k \in DOMAIN view.best_pairs : \A m \in DOMAIN view.best_pairs :
            k < m =>
                LET a == view.best_pairs[k]
                    b == view.best_pairs[m]
                IN  /\ a.r2.num * b.r2.den >= b.r2.num * a.r2.den
                    /\ a.r2.num * b.r2.den = b.r2.num * a.r2.den =>
                            EnumeratedBefore(IndexOf(a.var1), IndexOf(a.var2),
                                             IndexOf(b.var1), IndexOf(b.var2))

\* Reached: a list with two entries of equal r^2 and, after them, an entry of
\* smaller r^2 that was enumerated before one of them.
C22_Witness ==
    /\ StatisticsShown
    /\ \E k, m, q \in DOMAIN view.best_pairs :
            LET a == view.best_pairs[k]
                b == view.best_pairs[m]
                c == view.best_pairs[q]
            IN  /\ k < m /\ m < q
                /\ a.r2 = b.r2
                /\ b.r2.num * c.r2.den > c.r2.num * b.r2.den
                /\ EnumeratedBefore(IndexOf(c.var1), IndexOf(c.var2),
                                    IndexOf(b.var1), IndexOf(b.var2))

\* The pairs of the upper triangle whose matrices entries pass both
\* thresholds, r^2 > 0.8 and p < 0.05.
QualifyingPairs ==
    {ij \in (DOMAIN variables) \X (DOMAIN variables) :
        /\ ij[1] < ij[2]
        /\ AboveThresholdR(view.corr_matrix[ij[1]][ij[2]])
        /\ Below005(view.p_values[ij[1]][ij[2]])}

\* The pairs shown in the best-fit list.
ListedPairs ==
    {<<IndexOf(view.best_pairs[k].var1), IndexOf(view.best_pairs[k].var2)>> :
        k \in DOMAIN view.best_pairs}

\* C23: the best-fit list has min(6, number of qualifying pairs) entries,
\* all of them qualifying pairs; with at most 6 qualifying pairs all are
\* listed, and with more no omitted qualifying pair has an r^2 greater than
\* that of a listed pair.
C23_SixBestPairs ==
    StatisticsShown =>
        LET count == Cardinality(QualifyingPairs)
        IN  /\ Len(view.best_pairs) = IF count < 6 THEN count ELSE 6
            /\ Cardinality(ListedPairs) = Len(view.best_pairs)
            /\ ListedPairs \subseteq QualifyingPairs
            /\ count <= 6 => ListedPairs = QualifyingPairs
            /\ \A o \in QualifyingPairs \ ListedPairs : \A l \in ListedPairs :
                    LET ro == view.corr_matrix[o[1]][o[2]]
                        rl == view.corr_matrix[l[1]][l[2]]
                    IN  ro.num * rl.den <= rl.num * ro.den

\* Reached: more than 6 pairs qualify and 6 of them are listed.
C23_Witness ==
    /\ StatisticsShown
    /\ Cardinality(QualifyingPairs) > 6
    /\ Len(view.best_pairs) = 6
    /\ QualifyingPairs \ ListedPairs # {}

-----------------------------------------------------------------------------
(* Data Overview: what the IQR outlier summary counts *)

\* The number of values of a series strictly below Q1 - 1.5 IQR or strictly
\* above Q3 + 1.5 IQR.  With the quartiles x100 the lower fence x200 is
\* 5 Q1 - 3 Q3 and the upper one 5 Q3 - 3 Q1.
StrictlyOutsideFences(vals) ==
    LET q1 == quantile_x100(vals, 25)
        q3 == quantile_x100(vals, 75)
    IN  Cardinality({i \in DOMAIN vals :
            \/ 200 * vals[i] < 5 * q1 - 3 * q3
            \/ 200 * vals[i] > 5 * q3 - 3 * q1})

\* A value of the series lies exactly on one of its two fences.
OnAFence(vals) ==
    LET q1 == quantile_x100(vals, 25)
        q3 == quantile_x100(vals, 75)
    IN  \E i \in DOMAIN vals :
            \/ 200 * vals[i] = 5 * q1 - 3 * q3
            \/ 200 * vals[i] = 5 * q3 - 3 * q1

\* C24: the outlier summary of a variable is computed on the non-null values
\* of the date-filtered raw dataset: the count is the number of values
\* strictly below Q1 - 1.5 IQR or strictly above Q3 + 1.5 IQR (a value on a
\* fence is not counted), the percentage is count / number of values * 100,
\* 0 <= count <= number of values and 0 <= percentage <= 100.
C24_IqrOutlierSummary ==
    OverviewShown =>
        \A k \in DOMAIN variables :
            LET vals == ValuesIn(filtered_raw_data, k)
                n == Len(vals)
                count == view.outlier_counts[k]
                pct == view.outlier_percentages[k]
            IN  n > 0 =>
                    /\ count = StrictlyOutsideFences(vals)
                    /\ count >= 0 /\ count <= n
                    /\ pct.kind = "num"
                    /\ pct.num * n = 100 * count * pct.den
                    /\ pct.num >= 0 /\ pct.num <= 100 * pct.den

\* Reached: an overview in which one variable has a value above its upper
\* fence, one a value below its lower fence, one a value exactly on a fence
\* that is not counted, and one an outlier in the raw view that the clean
\* view does not hold.
C24_Witness ==
    /\ OverviewShown
    /\ \E k \in DOMAIN variables :
            LET vals == ValuesIn(filtered_raw_data, k)
            IN  /\ view.outlier_counts[k] = 1
                /\ \E i \in DOMAIN vals :
                        200 * vals[i] > 5 * quantile_x100(vals, 75)
                                          - 3 * quantile_x100(vals, 25)
    /\ \E k \in DOMAIN variables :
            LET vals == ValuesIn(filtered_raw_data, k)
            IN  /\ view.outlier_counts[k] = 1
                /\ \E i \in DOMAIN vals :
                        200 * vals[i] < 5 * quantile_x100(vals, 25)
                                          - 3 * quantile_x100(vals, 75)
    /\ \E k \in DOMAIN variables :
            /\ OnAFence(ValuesIn(filtered_raw_data, k))
            /\ view.outlier_counts[k] = 0
    /\ \E k \in DOMAIN variables :
            /\ view.outlier_counts[k] > 0
            /\ ValuesIn(filtered_data, k) # ValuesIn(filtered_raw_data, k)
            /\ StrictlyOutsideFences(ValuesIn(filtered_data, k)) = 0

-----------------------------------------------------------------------------
(* Interannual Variability: the kind of t-test and the significance rule *)

\* C25 (as the specification states it): the t-test of the year comparison
\* is the two-sided independent-samples test with unequal variances (Welch),
\* not the pooled-variance test.  The program calls ttest_ind(data_2024,
\* data_2025) and leaves equal_var at its default True, the pooled test.
C25_WelchTTest ==
    InterannualSelected =>
        \A k \in DOMAIN view.test_results :
            view.test_results[k].t_available => ~view.test_results[k].t_equal_var

-----------------------------------------------------------------------------
(* Interannual Variability and the date picker *)

\* C27: the year comparison is computed from the whole clean dataset and not
\* from the date-filtered one: a rerun of the Interannual Variability section
\* with another value of the date picker shows the same year partitions,
\* test results, summary records and significant changes for every variable.
C27_YearComparisonIgnoresDateRange ==
    [][(InterannualSelected /\ InterannualSelected') =>
            /\ view'.data_2024 = view.data_2024
            /\ view'.data_2025 = view.data_2025
            /\ view'.test_results = view.test_results
            /\ view'.summary_data = view.summary_data
            /\ view'.significant_changes = view.significant_changes]_vars

\* Reached: the year comparison shown with a date range that selects rows of
\* 2025 only, while a variable still has a mean of 2024 and a mean of 2025.
C27_Witness ==
    /\ InterannualSelected
    /\ Len(date_range) = 2
    /\ filtered_data # <<>>
    /\ Len(filtered_data) < Len(data)
    /\ \A i \in DOMAIN filtered_data :
            dt_year(filtered_data[i].cells["datetime"]) = 2025
    /\ \E k \in DOMAIN view.summary_data :
            /\ view.summary_data[k].Mean_2024.kind = "num"
            /\ view.summary_data[k].Mean_2025.kind = "num"
            /\ view.summary_data[k].P_Value = 500

-----------------------------------------------------------------------------
(* Statistical Analysis: pairs with too few rows *)

\* C28: a pair of variables with at most 2 rows in which both hold a value
\* never appears in the best-fit list, also when its correlation coefficient
\* is exactly +1 or -1: its p-value is the sentinel 1.0.
C28_FewRowsNeverBestFit ==
    StatisticsShown =>
        \A i \in DOMAIN variables : \A j \in DOMAIN variables :
            (i # j /\ Cardinality(ValidLabels(i, j)) <= 2) =>
                /\ view.p_values[i][j].kind = "num"
                /\ view.p_values[i][j].num = view.p_values[i][j].den
                /\ \A k \in DOMAIN view.best_pairs :
                        {view.best_pairs[k].var1, view.best_pairs[k].var2}
                            # {variables[i], variables[j]}

\* Reached: a view of 3 rows in which a pair shares exactly 2 rows and has a
\* correlation coefficient of +1 or -1, left out of a best-fit list that
\* holds other pairs.
C28_Witness ==
    /\ StatisticsShown
    /\ Len(filtered_data) = 3
    /\ view.best_pairs # <<>>
    /\ \E i, j \in DOMAIN variables :
            /\ i < j
            /\ Cardinality(ValidLabels(i, j)) = 2
            /\ view.corr_matrix[i][j].kind = "num"
            /\ view.corr_matrix[i][j].num = view.corr_matrix[i][j].den
            /\ <<i, j>> \notin ListedPairs

-----------------------------------------------------------------------------
(* Interannual Variability: a Mann-Whitney test without a result *)

\* C29: a variable whose Mann-Whitney test is unavailable (its p-value is
\* nan) is labelled "Not Significant" and is not in the significant-changes
\* list; when that holds for every variable the view reports that no
\* significant interannual changes were detected.
C29_UnavailableTestNotSignificant ==
    InterannualSelected =>
        /\ error = ""
        /\ Len(view.summary_data) = Len(variables)
        /\ \A k \in DOMAIN view.summary_data :
                view.summary_data[k].P_Value = NaN =>
                    /\ view.summary_data[k].Significance = "Not Significant"
                    /\ \A m \in DOMAIN view.significant_changes :
                            view.significant_changes[m].Variable
                                # view.summary_data[k].Variable
        /\ (\A k \in DOMAIN view.summary_data : view.summary_data[k].P_Value = NaN)
                => /\ view.significant_changes = <<>>
                   /\ view.changes_report
                        = "NO SIGNIFICANT INTERANNUAL CHANGES DETECTED"

\* Reached: a year comparison in which the Mann-Whitney call of one variable
\* raised and left no p-value, that variable is labelled "Not Significant"
\* and is not listed, while another variable with p = 0.010 is listed.
C29_Witness ==
    /\ InterannualSelected
    /\ \E k \in DOMAIN view.summary_data :
            /\ ~view.test_results[k].mw_available
            /\ view.summary_data[k].P_Value = NaN
            /\ view.summary_data[k].Significance = "Not Significant"
    /\ \E m \in DOMAIN view.significant_changes :
            view.significant_changes[m].P_Value = 10
    /\ view.changes_report = "Significant Changes Detected:"

-----------------------------------------------------------------------------
(* Navigation *)

\* The run rendered the view of section s and of no other section: the
\* results of the other views are not there.
RendersOnly(s) ==
    /\ view.section = s
    /\ (view.data_2024 # <<>> \/ view.data_2025 # <<>>)
            => s \in {menu_options[1], menu_options[4]}
    /\ (view.var_counts # <<>>) <=> s = menu_options[2]
    /\ (view.outlier_counts # <<>>) <=> s = menu_options[2]
    /\ (view.corr_matrix # <<>>) <=> s = menu_options[3]
    /\ (view.p_values # <<>>) <=> s = menu_options[3]
    /\ (view.summary_data # <<>>) <=> s = menu_options[4]
    /\ (view.test_results # <<>>) <=> s = menu_options[4]
    /\ (view.changes_report # "") <=> s = menu_options[4]

\* C30: selected_section is initially the first menu option "About" and
\* always one of the six menu options; it changes only in a rerun caused by a
\* navigation button (the date picker keeps its value) and not in a rerun
\* caused by a change of the date range; every run renders exactly the view
\* that selected_section names.
C30_SelectedSectionRendered ==
    /\ selected_section = menu_options[1]
    /\ [](/\ \E k \in DOMAIN menu_options : selected_section = menu_options[k]
          /\ Len(menu_options) = 6
          /\ RendersOnly(selected_section))
    /\ [][/\ selected_section' # selected_section => date_range' = date_range
          /\ date_range' # date_range => selected_section' = selected_section
         ]_vars

\* Reached: the References section selected and rendered under a date range
\* that is not the default one, that is after a click and a change of the
\* date range.
C30_Witness ==
    /\ selected_section = menu_options[6]
    /\ view.section = menu_options[6]
    /\ date_range # DefaultRange(data)
    /\ Len(filtered_data) < Len(data)

=========================================================================
